---- MODULE Spec2Model ----
(***************************************************************************)
(* Model of the meal-planning pipeline (graph.py, meal_utils.py,           *)
(* configuration.py, state.py, cli.py): the four graph nodes               *)
(* search_recipes -> parse_recipe -> find_stores -> create_report, the     *)
(* state reducers, Configuration.from_runnable_config, the report          *)
(* formatters and the command-line driver.                                 *)
(*                                                                         *)
(* Representation.  A Python str is a sequence of pieces: a piece is a run *)
(* of non-blank characters, one blank " " or one newline; concatenation is *)
(* \o and "" is <<>>.  A Python/JSON value is a tagged record [t, v]:      *)
(* "null", "bool", "num", "str" (v = pieces), "arr" (v = sequence of       *)
(* values), "obj" (v = function from keys to values).  The outcome of a    *)
(* call is Ok(value) or Raise(exception).  The language model and the      *)
(* search backend are external: each call draws its outcome from a bounded *)
(* set of outcomes.                                                        *)
(***************************************************************************)
EXTENDS Integers, Sequences, FiniteSets, TLC

\* ---------------------------------------------------------------- bounds
\* largest number of valid stores an extraction response lists
MaxReturnedStores == 4
\* per-run values of max_store_recommendations range over 0..MaxConfiguredStores
MaxConfiguredStores == 2

\* ---------------------------------------------------------- Python values
None == [t |-> "null", v |-> 0]
PyBool(b) == [t |-> "bool", v |-> b]
PyInt(n) == [t |-> "num", v |-> n]
PyStr(pieces) == [t |-> "str", v |-> pieces]
PyList(seq) == [t |-> "arr", v |-> seq]
PyDict(f) == [t |-> "obj", v |-> f]
PyEnum(name) == [t |-> "enum", v |-> name]

Range(seq) == {seq[i] : i \in 1..Len(seq)}

\* bool(x)
Truthy(x) ==
    CASE x.t = "null" -> FALSE
      [] x.t = "bool" -> x.v
      [] x.t = "num" -> x.v # 0
      [] x.t = "str" -> x.v # <<>>
      [] x.t = "arr" -> x.v # <<>>
      [] x.t = "obj" -> DOMAIN x.v # {}
      [] OTHER -> TRUE

Exc(type, msg) == [type |-> type, msg |-> msg]
NoError == Exc("", <<>>)
Ok(value) == [t |-> "ok", v |-> value]
Raise(e) == [t |-> "raise", v |-> e]
NotCalled == [t |-> "notcalled", v |-> 0]

\* JSONDecodeError is a subclass of ValueError
ValueErrorFamily == {"ValueError", "JSONDecodeError"}

\* `key in x`: dict -> key membership, list -> element membership,
\* str -> substring, anything else is not iterable
py_in(key, x) ==
    CASE x.t = "obj" -> Ok(key \in DOMAIN x.v)
      [] x.t = "arr" -> Ok(\E i \in 1..Len(x.v) : x.v[i] = PyStr(<<key>>))
      [] x.t = "str" -> Ok(key \in Range(x.v))
      [] OTHER -> Raise(Exc("TypeError", <<"argument is not iterable">>))

\* x[key] with a str key
py_getitem(x, key) ==
    CASE x.t = "obj" -> IF key \in DOMAIN x.v THEN Ok(x.v[key])
                        ELSE Raise(Exc("KeyError", <<key>>))
      [] OTHER -> Raise(Exc("TypeError", <<"bad subscript">>))

\* all(key in x for key in keys): the generator stops at the first False;
\* on a value that is not iterable the first test already raises
py_all_in(keys, x) ==
    LET probe == py_in(CHOOSE k \in keys : TRUE, x)
    IN IF probe.t = "raise" THEN probe
       ELSE Ok(\A k \in keys : py_in(k, x).v)

\* A model response body: the text of a JSON document, or other text
JsonText(value) == [t |-> "json", v |-> value]
PlainText(pieces) == [t |-> "text", v |-> pieces]

json_loads(content) ==
    IF content.t = "json" THEN Ok(content.v)
    ELSE Raise(Exc("JSONDecodeError", <<"Expecting value">>))

\* ----------------------------------------------------------- Configuration
Fields == {"max_web_research_loops", "model_name", "search_api",
           "max_store_recommendations", "include_price_estimates",
           "max_recipe_alternatives"}

TAVILY == PyEnum("tavily")
PERPLEXITY == PyEnum("perplexity")

Defaults ==
    [max_web_research_loops |-> PyInt(3),
     model_name |-> PyStr(<<"gpt-4-0125-preview">>),
     search_api |-> TAVILY,
     max_store_recommendations |-> PyInt(3),
     include_price_estimates |-> PyBool(TRUE),
     max_recipe_alternatives |-> PyInt(2)]

\* f.name.upper()
Upper ==
    [max_web_research_loops |-> "MAX_WEB_RESEARCH_LOOPS",
     model_name |-> "MODEL_NAME",
     search_api |-> "SEARCH_API",
     max_store_recommendations |-> "MAX_STORE_RECOMMENDATIONS",
     include_price_estimates |-> "INCLUDE_PRICE_ESTIMATES",
     max_recipe_alternatives |-> "MAX_RECIPE_ALTERNATIVES"]

\* d.get(key, default)
dict_get(d, key, default) == IF key \in DOMAIN d THEN d[key] ELSE default

EmptyDict == [k \in {} |-> None]

from_runnable_config(cfg, environ) ==
    LET configurable == IF cfg.t = "obj" /\ "configurable" \in DOMAIN cfg.v
                        THEN cfg.v.configurable ELSE EmptyDict
        values == [f \in Fields |->
                     dict_get(environ, Upper[f], dict_get(configurable, f, None))]
    IN [f \in Fields |-> IF Truthy(values[f]) THEN values[f] ELSE Defaults[f]]

\* values a caller passes per run, and values the environment holds (always str)
PerRunValues(f) ==
    CASE f = "max_web_research_loops" -> {PyInt(5)}
      [] f = "model_name" -> {PyStr(<<"gpt-4o">>)}
      [] f = "search_api" -> {PERPLEXITY}
      [] f = "max_store_recommendations" ->
            {PyInt(n) : n \in 0..MaxConfiguredStores}
      [] f = "include_price_estimates" -> {PyBool(FALSE)}
      [] f = "max_recipe_alternatives" -> {PyInt(1)}

EnvValues(f) ==
    CASE f = "max_web_research_loops" -> {PyStr(<<"7">>)}
      [] f = "model_name" -> {PyStr(<<"gpt-4o-mini">>), PyStr(<<>>)}
      [] f = "search_api" -> {PyStr(<<"perplexity">>)}
      [] f = "max_store_recommendations" -> {PyStr(<<"2">>)}
      [] f = "include_price_estimates" -> {PyStr(<<"false">>)}
      [] f = "max_recipe_alternatives" -> {PyStr(<<"4">>)}

\* ------------------------------------------------------------------ state
VARIABLES
    location, cuisine_preference, dietary_restrictions, flavor_preference,
    recipe_name, ingredients, instructions, store_recommendations,
    web_research_results, sources_gathered, final_report,
    config, env,          \* the per-run RunnableConfig and os.environ
    configuration,        \* the Configuration the latest node resolved
    pc,                   \* the node (or driver step) to run next
    error,                \* the exception that ended the run, if any
    calls,                \* outcomes of the collaborator calls made so far
    printed, written      \* cli.py: report printed, markdown file written

vars == <<location, cuisine_preference, dietary_restrictions, flavor_preference,
          recipe_name, ingredients, instructions, store_recommendations,
          web_research_results, sources_gathered, final_report,
          config, env, configuration, pc, error, calls, printed, written>>

inputs == <<location, cuisine_preference, dietary_restrictions,
            flavor_preference, config, env>>

Locations == {<<"Paris">>, <<"San", " ", "Diego">>}

\* MealPlanStateInput records: only the location, or every field given
Preferences ==
    {[location |-> <<"Paris">>, cuisine |-> None, restrictions |-> <<>>,
      flavor |-> None],
     [location |-> <<"San", " ", "Diego">>, cuisine |-> PyStr(<<"thai">>),
      restrictions |-> <<PyStr(<<"vegan">>)>>, flavor |-> PyStr(<<"spicy">>)]}

Unresolved == [f \in Fields |-> None]

Init ==
    /\ \E p \in Preferences :
         /\ location = PyStr(p.location)
         /\ cuisine_preference = p.cuisine
         /\ dietary_restrictions = p.restrictions
         /\ flavor_preference = p.flavor
    /\ \E f \in Fields :
         /\ \/ config = PyDict([configurable |-> EmptyDict])
            \/ \E pv \in PerRunValues(f) :
                 config = PyDict([configurable |-> [k \in {f} |-> pv]])
         /\ \/ env = EmptyDict
            \/ \E ev \in EnvValues(f) : env = [k \in {Upper[f]} |-> ev]
    /\ recipe_name = None
    /\ ingredients = PyList(<<>>)
    /\ instructions = PyList(<<>>)
    /\ store_recommendations = PyList(<<>>)
    /\ web_research_results = <<>>
    /\ sources_gathered = <<>>
    /\ final_report = None
    /\ configuration = Unresolved
    /\ pc = "search_recipes"
    /\ error = NoError
    /\ calls = <<>>
    /\ printed = FALSE
    /\ written = None

\* ------------------------------------------------------- string helpers
RECURSIVE Join(_, _)
\* sep.join(strs)
Join(sep, strs) ==
    IF strs = <<>> THEN <<>>
    ELSE IF Len(strs) = 1 THEN strs[1]
    ELSE strs[1] \o sep \o Join(sep, Tail(strs))

\* str(e)
ExcStr(e) == e.msg

\* ------------------------------------------------------ collaborators
\* ChatOpenAI.invoke either raises or returns a message with a body
APIConnectionError == Exc("APIConnectionError", <<"Connection", " ", "error.">>)
LLMFailures == {APIConnectionError,
                Exc("ValueError", <<"Unsupported", " ", "message">>)}

QueryBodies ==
    {PlainText(<<"not", " ", "json">>),
     JsonText(PyInt(42)),
     JsonText(PyDict([rationale |-> PyStr(<<"spicy">>)])),
     JsonText(PyDict([query |-> PyStr(<<"thai", " ", "curry">>),
                      rationale |-> PyStr(<<"spicy">>)]))}

QueryOutcomes == {Raise(APIConnectionError)} \cup {Ok(b) : b \in QueryBodies}

GoodEntry == PyDict([title |-> PyStr(<<"Pad", " ", "Thai">>),
                     content |-> PyStr(<<"noodles">>),
                     url |-> PyStr(<<"http://r.example">>)])

\* tavily_search / perplexity_search: a failure, nothing, a batch of
\* entries, a batch with a malformed entry, or raw text
SearchOutcomes ==
    {Raise(Exc("HTTPError", <<"429">>)),
     Ok(None),
     Ok(PyDict([results |-> PyList(<<GoodEntry>>)])),
     Ok(PyDict([results |-> PyList(<<PyStr(<<"entry">>)>>)])),
     Ok(PyStr(<<"raw", " ", "answer">>))}

\* utils.format_sources: one "* title : url" line per entry of the batch
format_sources(search_results) ==
    LET results == py_getitem(search_results, "results")
    IN IF results.t = "raise" THEN results
       ELSE IF results.v.t # "arr"
            THEN Raise(Exc("TypeError", <<"results is not a list">>))
       ELSE IF \E i \in 1..Len(results.v.v) :
                  \/ results.v.v[i].t # "obj"
                  \/ {"title", "url"} \ DOMAIN results.v.v[i].v # {}
            THEN Raise(Exc("TypeError", <<"bad source entry">>))
       ELSE Ok(PyStr(Join(<<"\n">>,
                [i \in 1..Len(results.v.v) |->
                    <<"*", " ">> \o results.v.v[i].v.title.v
                    \o <<" ", ":", " ">> \o results.v.v[i].v.url.v])))

\* "Title: ..\nContent: ..\nURL: .." blocks of a batch, or str(batch):
\* result.get raises on an entry that is not a dict
format_results(search_results) ==
    IF search_results.t = "obj" /\ "results" \in DOMAIN search_results.v
    THEN LET results == search_results.v.results
         IN IF results.t \in {"null", "bool", "num"}
            THEN Raise(Exc("TypeError", <<"results is not iterable">>))
            ELSE IF results.t = "arr" /\ \A i \in 1..Len(results.v) :
                                            results.v[i].t = "obj"
            THEN Ok(PyStr(Join(<<"\n", "\n">>,
                   [i \in 1..Len(results.v) |->
                      <<"Title:", " ">>
                      \o dict_get(results.v[i].v, "title", PyStr(<<>>)).v
                      \o <<"\n", "Content:", " ">>
                      \o dict_get(results.v[i].v, "content", PyStr(<<>>)).v
                      \o <<"\n", "URL:", " ">>
                      \o dict_get(results.v[i].v, "url", PyStr(<<>>)).v])))
            ELSE IF Truthy(results)
            THEN Raise(Exc("AttributeError", <<"no attribute 'get'">>))
            ELSE Ok(PyStr(<<>>))
    ELSE Ok(PyStr(<<"str(", search_results.t, ")">>))

\* the backend the resolved Configuration selects
search_backend(configurable) ==
    IF configurable.search_api = TAVILY THEN "tavily" ELSE "perplexity"

\* ------------------------------------------------------- search_recipes
\* the body of the try block: Ok(update) or the exception it raises
search_recipes_try(llmOut, searchOut) ==
    IF llmOut.t = "raise" THEN llmOut
    ELSE LET query == json_loads(llmOut.v)
         IN IF query.t = "raise" THEN query
            ELSE IF query.v.t # "obj" \/ "query" \notin DOMAIN query.v.v
            THEN Raise(Exc("ValueError",
                     <<"Invalid", " ", "query", " ", "format", " ", "from", " ", "LLM">>))
            ELSE IF searchOut.t = "raise" THEN searchOut
            ELSE IF ~Truthy(searchOut.v)
            THEN Raise(Exc("ValueError",
                     <<"No", " ", "search", " ", "results", " ", "found">>))
            ELSE LET src == format_sources(searchOut.v)
                 IN IF src.t = "raise" THEN src
                    ELSE Ok([web_research_results |-> <<searchOut.v>>,
                             sources_gathered |-> <<src.v>>])

\* the update of the except branch
search_fallback(e) ==
    [web_research_results |->
        <<PyDict([results |-> PyList(<<
            PyDict([title |-> PyStr(<<"Error", " ", "in", " ", "search">>),
                    content |-> PyStr(<<"Failed", " ", "to", " ", "search", " ",
                                        "for", " ", "recipes:", " ">> \o ExcStr(e)),
                    url |-> PyStr(<<>>)])>>)])>>,
     sources_gathered |-> <<PyStr(<<"Search", " ", "failed">>)>>]

\* a handler that lets everything but the ValueError family through
search_recipes_narrow(llmOut, searchOut) ==
    LET r == search_recipes_try(llmOut, searchOut)
    IN IF r.t = "raise" /\ r.v.type \in ValueErrorFamily
       THEN Ok(search_fallback(r.v)) ELSE r

\* except (json.JSONDecodeError, ValueError, Exception): every exception
search_recipes(llmOut, searchOut) ==
    LET r == search_recipes_try(llmOut, searchOut)
    IN IF r.t = "raise" THEN Ok(search_fallback(r.v)) ELSE r

\* the search call is reached only with a parsed object holding 'query'
query_usable(llmOut) ==
    /\ llmOut.t = "ok"
    /\ json_loads(llmOut.v).t = "ok"
    /\ json_loads(llmOut.v).v.t = "obj"
    /\ "query" \in DOMAIN json_loads(llmOut.v).v.v

\* --------------------------------------------------- the graph driver
\* a reducer that drops the update
AddReducerDrop(old, new) == old

\* Annotated[list, operator.add]
AddReducer(old, new) == old \o new

\* fold a node's partial update into the state: operator.add for the two
\* annotated fields, replacement for the others
Merge(upd) ==
    /\ recipe_name' = dict_get(upd, "recipe_name", recipe_name)
    /\ ingredients' = dict_get(upd, "ingredients", ingredients)
    /\ instructions' = dict_get(upd, "instructions", instructions)
    /\ store_recommendations' =
          dict_get(upd, "store_recommendations", store_recommendations)
    /\ web_research_results' =
          IF "web_research_results" \in DOMAIN upd
          THEN AddReducer(web_research_results, upd.web_research_results)
          ELSE web_research_results
    /\ sources_gathered' =
          IF "sources_gathered" \in DOMAIN upd
          THEN AddReducer(sources_gathered, upd.sources_gathered)
          ELSE sources_gathered
    /\ final_report' = dict_get(upd, "final_report", final_report)

channels == <<recipe_name, ingredients, instructions, store_recommendations,
              web_research_results, sources_gathered, final_report>>

\* a node returned an update (follow the edge) or raised (the run ends)
RunNode(r, next) ==
    IF r.t = "ok"
    THEN Merge(r.v) /\ pc' = next /\ error' = error
    ELSE pc' = "aborted" /\ error' = r.v /\ UNCHANGED channels

\* the record of one node's collaborator calls, with the backend searched
Call(node, llmOut, searchOut, llm2Out) ==
    [node |-> node, llm |-> llmOut, search |-> searchOut, llm2 |-> llm2Out,
     api |-> IF searchOut = NotCalled THEN "none"
             ELSE search_backend(from_runnable_config(config, env))]

SearchRecipes ==
    /\ pc = "search_recipes"
    /\ \E llmOut \in QueryOutcomes :
         \E searchOut \in (IF query_usable(llmOut)
                           THEN SearchOutcomes ELSE {NotCalled}) :
            /\ RunNode(search_recipes(llmOut, searchOut), "parse_recipe")
            /\ calls' = Append(calls,
                          Call("search_recipes", llmOut, searchOut, NotCalled))
    /\ configuration' = from_runnable_config(config, env)
    /\ UNCHANGED <<inputs, printed, written>>

\* --------------------------------------------------------- parse_recipe
RequiredRecipeKeys == {"recipe_name", "ingredients", "instructions"}

\* the body of the try block, given the body of the model's message
parse_recipe_try(body) ==
    LET recipe_data == json_loads(body)
    IN IF recipe_data.t = "raise" THEN recipe_data
       ELSE LET complete == py_all_in(RequiredRecipeKeys, recipe_data.v)
            IN IF complete.t = "raise" THEN complete
               ELSE IF ~complete.v
               THEN Raise(Exc("ValueError",
                        <<"Missing", " ", "required", " ", "keys", " ", "in",
                          " ", "recipe", " ", "data">>))
               ELSE LET name == py_getitem(recipe_data.v, "recipe_name")
                        ingr == py_getitem(recipe_data.v, "ingredients")
                        inst == py_getitem(recipe_data.v, "instructions")
                    IN IF name.t = "raise" THEN name
                       ELSE IF ingr.t = "raise" THEN ingr
                       ELSE IF inst.t = "raise" THEN inst
                       ELSE Ok([recipe_name |-> name.v,
                                ingredients |-> ingr.v,
                                instructions |-> inst.v])

parse_fallback ==
    [recipe_name |-> PyStr(<<"Basic", " ", "Recipe", " ", "(", "Error", " ",
                             "in", " ", "parsing", ")">>),
     ingredients |-> PyList(<<PyDict(
        [quantity |-> PyStr(<<"1">>),
         unit |-> PyStr(<<"serving">>),
         name |-> PyStr(<<"ingredients", " ", "not", " ", "found">>)])>>),
     instructions |-> PyList(<<PyStr(<<"Recipe", " ", "instructions", " ",
                                       "could", " ", "not", " ", "be", " ",
                                       "parsed">>)>>)]

\* the prompt is built and the model called outside the try block;
\* except (json.JSONDecodeError, ValueError) takes the ValueError family only
parse_recipe(llmOut) ==
    LET content == format_results(web_research_results[Len(web_research_results)])
    IN IF content.t = "raise" THEN content
       ELSE IF llmOut.t = "raise" THEN llmOut
       ELSE LET r == parse_recipe_try(llmOut.v)
            IN IF r.t = "raise" /\ r.v.type \in ValueErrorFamily
               THEN Ok(parse_fallback) ELSE r

Ingredient(q, u, n) ==
    PyDict([quantity |-> PyStr(q), unit |-> PyStr(u), name |-> PyStr(n)])

KeyNames(keys) == PyStr(<<keys[1], " ", keys[2], " ", keys[3]>>)

RecipeBodies ==
    {PlainText(<<"not", " ", "json">>),
     JsonText(PyInt(42)),
     JsonText(None),
     JsonText(PyBool(TRUE)),
     JsonText(PyStr(<<"no", " ", "recipe">>)),
     JsonText(KeyNames(<<"recipe_name", "ingredients", "instructions">>)),
     JsonText(PyList(<<>>)),
     JsonText(PyList(<<PyStr(<<"recipe_name">>), PyStr(<<"ingredients">>),
                       PyStr(<<"instructions">>)>>)),
     JsonText(PyDict([recipe_name |-> PyStr(<<"Pad", " ", "Thai">>),
                      ingredients |-> PyList(<<Ingredient(<<"2">>, <<"cups">>, <<"flour">>)>>)])),
     JsonText(PyDict([recipe_name |-> PyStr(<<"Pad", " ", "Thai">>),
                      ingredients |-> PyList(<<Ingredient(<<"2">>, <<"cups">>, <<"flour">>)>>),
                      instructions |-> PyList(<<PyStr(<<"Boil", " ", "water">>)>>)])),
     JsonText(PyDict([recipe_name |-> PyStr(<<"Omelette">>),
                      ingredients |-> PyList(<<Ingredient(<<"1">>, <<>>, <<"egg">>),
                                               Ingredient(<<>>, <<>>, <<"salt">>)>>),
                      instructions |-> PyList(<<PyStr(<<"Whisk">>), PyStr(<<"Fry">>)>>)])),
     JsonText(PyDict([recipe_name |-> None,
                      ingredients |-> PyList(<<>>),
                      instructions |-> PyList(<<>>)])),
     JsonText(PyDict([recipe_name |-> PyStr(<<"Soup">>),
                      ingredients |-> PyList(<<PyDict([quantity |-> PyStr(<<"1">>)])>>),
                      instructions |-> None]))}

RecipeOutcomes == {Raise(APIConnectionError)} \cup {Ok(b) : b \in RecipeBodies}

ParseRecipe ==
    /\ pc = "parse_recipe"
    /\ \E llmOut \in RecipeOutcomes :
         /\ RunNode(parse_recipe(llmOut), "find_stores")
         /\ calls' = Append(calls,
                        Call("parse_recipe", llmOut, NotCalled, NotCalled))
    /\ configuration' = from_runnable_config(config, env)
    /\ UNCHANGED <<inputs, printed, written>>

\* ---------------------------------------------------------- find_stores
RECURSIVE SetToSeq(_)
SetToSeq(S) ==
    IF S = {} THEN <<>>
    ELSE LET x == CHOOSE y \in S : TRUE IN <<x>> \o SetToSeq(S \ {x})

\* iter(x): the elements of a list, the characters of a str, the keys of
\* a dict; anything else is not iterable
py_iter(x) ==
    CASE x.t = "arr" -> Ok(x.v)
      [] x.t = "str" -> Ok([i \in 1..Len(x.v) |-> PyStr(<<x.v[i]>>)])
      [] x.t = "obj" -> Ok([i \in 1..Cardinality(DOMAIN x.v) |->
                               PyStr(<<SetToSeq(DOMAIN x.v)[i]>>)])
      [] OTHER -> Raise(Exc("TypeError", <<"object is not iterable">>))

\* "\n".join(f"- {i['name']}" for i in state.ingredients): raises when the
\* ingredients cannot be iterated or an item has no 'name'
ingredient_names(ingr) ==
    LET items == py_iter(ingr)
    IN IF items.t = "raise" THEN items
       ELSE IF \E i \in 1..Len(items.v) : py_getitem(items.v[i], "name").t = "raise"
       THEN py_getitem(items.v[CHOOSE i \in 1..Len(items.v) :
                          /\ py_getitem(items.v[i], "name").t = "raise"
                          /\ \A j \in 1..(i - 1) :
                                py_getitem(items.v[j], "name").t = "ok"], "name")
       ELSE Ok(items.v)

RequiredStoreKeys == {"name", "address", "specialty_items"}

\* the validation loop: the first store whose test raises or fails decides
validate_stores(stores) ==
    LET bad(i) == \/ py_all_in(RequiredStoreKeys, stores[i]).t = "raise"
                  \/ ~py_all_in(RequiredStoreKeys, stores[i]).v
    IN IF \A i \in 1..Len(stores) : ~bad(i) THEN Ok(TRUE)
       ELSE LET first == CHOOSE i \in 1..Len(stores) :
                            bad(i) /\ \A j \in 1..(i - 1) : ~bad(j)
                r == py_all_in(RequiredStoreKeys, stores[first])
            IN IF r.t = "raise" THEN r
               ELSE Raise(Exc("ValueError",
                        <<"Store", " ", "missing", " ", "required", " ", "keys">>))

Min(a, b) == IF a < b THEN a ELSE b
Max(a, b) == IF a < b THEN b ELSE a

\* seq[:n]: a slice index must be an integer (bool counts as one)
py_slice_to(seq, n) ==
    CASE n.t = "num" ->
            Ok(IF n.v >= 0 THEN SubSeq(seq, 1, Min(n.v, Len(seq)))
               ELSE SubSeq(seq, 1, Max(0, Len(seq) + n.v)))
      [] n.t = "bool" -> Ok(SubSeq(seq, 1, Min(IF n.v THEN 1 ELSE 0, Len(seq))))
      [] OTHER -> Raise(Exc("TypeError",
                     <<"slice", " ", "indices", " ", "must", " ", "be", " ", "integers">>))

\* the body of the try block: the extraction call, parse, validation, cut
find_stores_try(llm2Out, configurable) ==
    IF llm2Out.t = "raise" THEN llm2Out
    ELSE LET store_data == json_loads(llm2Out.v)
         IN IF store_data.t = "raise" THEN store_data
            ELSE IF store_data.v.t # "obj" \/ "stores" \notin DOMAIN store_data.v.v
            THEN Raise(Exc("ValueError",
                     <<"Invalid", " ", "store", " ", "data", " ", "format">>))
            ELSE LET stores == store_data.v.v.stores
                 IN IF stores.t # "arr"
                    THEN Raise(Exc("ValueError",
                             <<"Stores", " ", "must", " ", "be", " ", "a", " ", "list">>))
                    ELSE LET valid == validate_stores(stores.v)
                         IN IF valid.t = "raise" THEN valid
                            ELSE LET kept == py_slice_to(stores.v,
                                        configurable.max_store_recommendations)
                                 IN IF kept.t = "raise" THEN kept
                                    ELSE Ok([store_recommendations |-> PyList(kept.v)])

\* a fallback that recommends nothing
stores_fallback_empty == [store_recommendations |-> PyList(<<>>)]

stores_fallback ==
    [store_recommendations |-> PyList(<<PyDict(
        [name |-> PyStr(<<"Local", " ", "Grocery", " ", "Store">>),
         address |-> PyStr(<<"Search", " ", "for", " ", "grocery", " ", "stores",
                             " ", "near", " ">> \o location.v),
         specialty_items |-> PyList(<<PyStr(<<"Unable", " ", "to", " ", "parse",
                                              " ", "store", " ", "data">>)>>)])>>)]

\* the statements before the try block: prompt, query call, parse, search,
\* formatting of the results.  Ok(search_content) or the exception raised
find_stores_head(llmOut, searchOut) ==
    LET names == ingredient_names(ingredients)
    IN IF names.t = "raise" THEN names
       ELSE IF llmOut.t = "raise" THEN llmOut
       ELSE LET query == json_loads(llmOut.v)
            IN IF query.t = "raise" THEN query
               ELSE IF py_getitem(query.v, "query").t = "raise"
               THEN py_getitem(query.v, "query")
               ELSE IF searchOut.t = "raise" THEN searchOut
               ELSE format_results(searchOut.v)

\* a stage that degrades a failure of its first half to the fallback
find_stores_guarded(llmOut, searchOut, llm2Out, configurable) ==
    LET head == find_stores_head(llmOut, searchOut)
    IN IF head.t = "raise" THEN Ok(stores_fallback)
       ELSE LET r == find_stores_try(llm2Out, configurable)
            IN IF r.t = "raise" /\ r.v.type \in ValueErrorFamily
               THEN Ok(stores_fallback) ELSE r

find_stores(llmOut, searchOut, llm2Out, configurable) ==
    LET head == find_stores_head(llmOut, searchOut)
    IN IF head.t = "raise" THEN head
       ELSE LET r == find_stores_try(llm2Out, configurable)
            IN IF r.t = "raise" /\ r.v.type \in ValueErrorFamily
               THEN Ok(stores_fallback) ELSE r

\* which collaborator calls the first half reaches
store_query_called == ingredient_names(ingredients).t = "ok"

store_search_called(llmOut) ==
    /\ store_query_called
    /\ llmOut.t = "ok"
    /\ json_loads(llmOut.v).t = "ok"
    /\ py_getitem(json_loads(llmOut.v).v, "query").t = "ok"

extraction_called(llmOut, searchOut) ==
    /\ store_search_called(llmOut)
    /\ find_stores_head(llmOut, searchOut).t = "ok"

Store(i) ==
    PyDict([name |-> PyStr(<<"Market", " ", ToString(i)>>),
            address |-> PyStr(<<ToString(i), " ", "Main", " ", "St">>),
            specialty_items |-> PyList(<<PyStr(<<"tofu">>)>>)])

StoresBody(seq) == JsonText(PyDict([stores |-> PyList(seq)]))

ExtractionBodies ==
    {PlainText(<<"not", " ", "json">>),
     JsonText(PyList(<<>>)),
     JsonText(PyDict([shops |-> PyList(<<Store(1)>>)])),
     JsonText(PyDict([stores |-> PyStr(<<"none">>)])),
     StoresBody(<<Store(1), PyDict([name |-> PyStr(<<"Co-op">>),
                                    address |-> PyStr(<<"2", " ", "Elm">>)])>>),
     StoresBody(<<PyDict([name |-> PyStr(<<"Co-op">>),
                          address |-> PyStr(<<"2", " ", "Elm">>)]), Store(2)>>),
     StoresBody(<<Store(1), None>>),
     StoresBody(<<Store(1), PyStr(<<"closed">>)>>),
     StoresBody(<<KeyNames(<<"name", "address", "specialty_items">>)>>)}
    \cup {StoresBody([i \in 1..k |-> Store(i)]) : k \in 0..MaxReturnedStores}

ExtractionOutcomes ==
    {Raise(e) : e \in LLMFailures} \cup {Ok(b) : b \in ExtractionBodies}

FindStores ==
    /\ pc = "find_stores"
    /\ \E llmOut \in (IF store_query_called THEN QueryOutcomes ELSE {NotCalled}) :
       \E searchOut \in (IF store_search_called(llmOut)
                         THEN SearchOutcomes ELSE {NotCalled}) :
       \E llm2Out \in (IF extraction_called(llmOut, searchOut)
                       THEN ExtractionOutcomes ELSE {NotCalled}) :
            /\ RunNode(find_stores(llmOut, searchOut, llm2Out,
                                   from_runnable_config(config, env)),
                       "create_report")
            /\ calls' = Append(calls,
                          Call("find_stores", llmOut, searchOut, llm2Out))
    /\ configuration' = from_runnable_config(config, env)
    /\ UNCHANGED <<inputs, printed, written>>

\* -------------------------------------------------------- meal_utils.py
\* the outcomes of a comprehension: the first exception, or every value
Collect(outs) ==
    IF \A i \in 1..Len(outs) : outs[i].t = "ok"
    THEN Ok([i \in 1..Len(outs) |-> outs[i].v])
    ELSE outs[CHOOSE i \in 1..Len(outs) :
                 outs[i].t = "raise" /\ \A j \in 1..(i - 1) : outs[j].t = "ok"]

\* str(x), as an f-string renders a value
py_str(x) ==
    CASE x.t = "str" -> x.v
      [] x.t = "null" -> <<"None">>
      [] x.t = "num" -> <<ToString(x.v)>>
      [] x.t = "bool" -> IF x.v THEN <<"True">> ELSE <<"False">>
      [] OTHER -> <<"repr(", x.t, ")">>

Blank == {" ", "\n"}

RECURSIVE lstrip(_)
lstrip(s) == IF s # <<>> /\ Head(s) \in Blank THEN lstrip(Tail(s)) ELSE s

RECURSIVE rstrip(_)
rstrip(s) ==
    IF s # <<>> /\ s[Len(s)] \in Blank THEN rstrip(SubSeq(s, 1, Len(s) - 1)) ELSE s

\* str.strip()
strip(s) == rstrip(lstrip(s))

\* item.get(key, ''): only a dict has .get
py_get(item, key, default) ==
    IF item.t = "obj" THEN Ok(dict_get(item.v, key, default))
    ELSE Raise(Exc("AttributeError", <<"no attribute 'get'">>))

\* one shopping-list line: f"- {quantity} {unit} {name}".strip()
ingredient_line(item) ==
    LET quantity == py_get(item, "quantity", PyStr(<<>>))
        unit == py_get(item, "unit", PyStr(<<>>))
        name == py_get(item, "name", PyStr(<<>>))
    IN IF quantity.t = "raise" THEN quantity
       ELSE Ok(strip(<<"-", " ">> \o py_str(quantity.v) \o <<" ">>
                     \o py_str(unit.v) \o <<" ">> \o py_str(name.v)))

format_ingredients_list(ingr) ==
    LET items == py_iter(ingr)
    IN IF items.t = "raise" THEN items
       ELSE LET formatted == Collect([i \in 1..Len(items.v) |->
                                        ingredient_line(items.v[i])])
            IN IF formatted.t = "raise" THEN formatted
               ELSE Ok(Join(<<"\n">>, formatted.v))

\* ', '.join(x): every element must be a str
py_join(sep, x) ==
    LET items == py_iter(x)
    IN IF items.t = "raise" THEN items
       ELSE IF \E i \in 1..Len(items.v) : items.v[i].t # "str"
       THEN Raise(Exc("TypeError", <<"sequence item: expected str instance">>))
       ELSE Ok(Join(sep, [i \in 1..Len(items.v) |-> items.v[i].v]))

store_block(store) ==
    LET name == py_get(store, "name", PyStr(<<>>))
        address == py_get(store, "address", PyStr(<<>>))
        specialty_items == py_get(store, "specialty_items", PyList(<<>>))
        store_info == <<"*", " ">> \o py_str(name.v) \o <<" ", "-", " ">>
                      \o py_str(address.v)
    IN IF name.t = "raise" THEN name
       ELSE IF ~Truthy(specialty_items.v) THEN Ok(store_info)
       ELSE LET joined == py_join(<<",", " ">>, specialty_items.v)
            IN IF joined.t = "raise" THEN joined
               ELSE Ok(store_info \o <<"\n", " ", " ", "Recommended", " ",
                                        "for:", " ">> \o joined.v)

format_store_recommendations(stores) ==
    LET items == py_iter(stores)
    IN IF items.t = "raise" THEN items
       ELSE LET formatted == Collect([i \in 1..Len(items.v) |->
                                        store_block(items.v[i])])
            IN IF formatted.t = "raise" THEN formatted
               ELSE Ok(Join(<<"\n">>, formatted.v))

\* "\n".join(f"{i+1}. {step}" for i, step in enumerate(instructions))
format_instructions(inst) ==
    LET items == py_iter(inst)
    IN IF items.t = "raise" THEN items
       ELSE Ok(Join(<<"\n">>, [i \in 1..Len(items.v) |->
                     <<ToString(i), ".", " ">> \o py_str(items.v[i])]))

RecipeHeader == <<"##", " ", "Recipe:">>
StoresHeader == <<"###", " ", "Recommended", " ", "Stores:">>
ShoppingHeader == <<"###", " ", "Shopping", " ", "List:">>
CookingHeader == <<"###", " ", "Cooking", " ", "Instructions:">>

\* FINAL_REPORT_TEMPLATE.format(...)
FINAL_REPORT_TEMPLATE(name, stores, ingr, inst) ==
    <<"#", " ", "Meal", " ", "Planning", " ", "Report", "\n", "\n">>
    \o RecipeHeader \o <<" ">> \o name \o <<"\n", "\n">>
    \o StoresHeader \o <<"\n">> \o stores \o <<"\n", "\n">>
    \o ShoppingHeader \o <<"\n">> \o ingr \o <<"\n", "\n">>
    \o CookingHeader \o <<"\n">> \o inst \o <<"\n", "\n">>
    \o <<"*All", " ", "store", " ", "recommendations", " ", "and", " ",
         "prices", " ", "are", " ", "approximate.", " ", "Please", " ", "call",
         " ", "ahead", " ", "to", " ", "confirm", " ", "availability.*", "\n">>

generate_final_report(name, stores, ingr, inst) ==
    LET store_text == format_store_recommendations(stores)
        ingr_text == format_ingredients_list(ingr)
        inst_text == format_instructions(inst)
    IN IF store_text.t = "raise" THEN store_text
       ELSE IF ingr_text.t = "raise" THEN ingr_text
       ELSE IF inst_text.t = "raise" THEN inst_text
       ELSE Ok(PyStr(FINAL_REPORT_TEMPLATE(py_str(name), store_text.v,
                                           ingr_text.v, inst_text.v)))

create_report ==
    LET report == generate_final_report(recipe_name, store_recommendations,
                                        ingredients, instructions)
    IN IF report.t = "raise" THEN report
       ELSE Ok([final_report |-> report.v])

CreateReport ==
    /\ pc = "create_report"
    /\ RunNode(create_report, "END")
    /\ UNCHANGED <<inputs, configuration, calls, printed, written>>

\* ------------------------------------------------------------------ cli.py
\* str.lower() of a piece
lower(piece) ==
    CASE piece = "Paris" -> "paris"
      [] piece = "San" -> "san"
      [] piece = "Diego" -> "diego"
      [] OTHER -> piece

\* f"meal_plan_{location.lower().replace(' ', '_')}.md"
markdown_filename(loc) ==
    <<"meal_plan_">>
    \o [i \in 1..Len(loc) |-> IF lower(loc[i]) = " " THEN "_" ELSE lower(loc[i])]
    \o <<".md">>

\* main: the graph returned, the report is printed ...
PrintReport ==
    /\ pc = "END"
    /\ printed' = TRUE
    /\ pc' = "save_to_markdown"
    /\ UNCHANGED <<inputs, channels, configuration, error, calls, written>>

\* ... and then written to the markdown file
SaveToMarkdown ==
    /\ pc = "save_to_markdown"
    /\ written' = PyStr(markdown_filename(location.v))
    /\ pc' = "exit"
    /\ UNCHANGED <<inputs, channels, configuration, error, calls, printed>>

Next ==
    \/ SearchRecipes
    \/ ParseRecipe
    \/ FindStores
    \/ CreateReport
    \/ PrintReport
    \/ SaveToMarkdown

Spec == Init /\ [][Next]_vars

\* ================================================================ claims
\* sub occurs in s as a contiguous run of pieces
Contains(s, sub) ==
    \E i \in 1..(Len(s) - Len(sub) + 1) : SubSeq(s, i, i + Len(sub) - 1) = sub

IsPrefix(old, new) == Len(old) <= Len(new) /\ SubSeq(new, 1, Len(old)) = old

GraphEnded == pc \in {"END", "save_to_markdown", "exit"}

HasAllHeaders(report) ==
    /\ Contains(report, RecipeHeader)
    /\ Contains(report, StoresHeader)
    /\ Contains(report, ShoppingHeader)
    /\ Contains(report, CookingHeader)

\* C1: whatever the model and the search backend do, a run is never cut
\* short, and once the graph has ended final_report is a non-empty string
\* holding the four section headers.
C1_AlwaysReports ==
    /\ pc # "aborted"
    /\ GraphEnded => /\ final_report.t = "str"
                     /\ final_report.v # <<>>
                     /\ HasAllHeaders(final_report.v)

\* C2: every step keeps each entry of web_research_results and
\* sources_gathered at its index, and the search_recipes step makes each
\* list exactly one entry longer.
C2_AppendOnly ==
    [][/\ IsPrefix(web_research_results, web_research_results')
       /\ IsPrefix(sources_gathered, sources_gathered')
       /\ pc = "search_recipes" =>
             /\ Len(web_research_results') = Len(web_research_results) + 1
             /\ Len(sources_gathered') = Len(sources_gathered) + 1]_vars

SearchFailedSource == PyStr(<<"Search", " ", "failed">>)

\* a whole run on the success path of search_recipes, its batch still there
C2_Witness ==
    /\ pc = "exit"
    /\ Len(web_research_results) = 1
    /\ calls[1].search.t = "ok"
    /\ web_research_results[1] = calls[1].search.v
    /\ Len(sources_gathered) = 1
    /\ sources_gathered[1] # SearchFailedSource

\* an extraction body that fails parsing or validation
InvalidExtraction(body) ==
    \/ json_loads(body).t = "raise"
    \/ json_loads(body).v.t # "obj"
    \/ "stores" \notin DOMAIN json_loads(body).v.v
    \/ json_loads(body).v.v.stores.t # "arr"
    \/ \E i \in 1..Len(json_loads(body).v.v.stores.v) :
          LET store == json_loads(body).v.v.stores.v[i]
          IN \/ store.t # "obj"
             \/ RequiredStoreKeys \ DOMAIN store.v # {}

\* str -> int for the values the environment holds
IntOf(pieces) ==
    CASE pieces = <<"2">> -> 2
      [] pieces = <<"4">> -> 4
      [] pieces = <<"7">> -> 7
      [] OTHER -> 3

\* the maximum the caller configured: per run, else environment, else default
ConfiguredMax ==
    IF "max_store_recommendations" \in DOMAIN config.v.configurable
    THEN config.v.configurable.max_store_recommendations.v
    ELSE IF "MAX_STORE_RECOMMENDATIONS" \in DOMAIN env
    THEN IntOf(env.MAX_STORE_RECOMMENDATIONS.v)
    ELSE Defaults.max_store_recommendations.v

\* the stores of an extraction body that passes parsing and validation
ReturnedStores(body) == json_loads(body).v.v.stores.v

\* C3: when the model returns a list of valid stores, find_stores keeps the
\* first N of them in returned order, N the configured maximum, for every
\* configured value; so the count never exceeds the configured maximum.
C3_CountWithinConfiguredMax ==
    (/\ Len(calls) = 3
     /\ calls[3].llm2.t = "ok"
     /\ ~InvalidExtraction(calls[3].llm2.v)) =>
        /\ Len(store_recommendations.v) <= ConfiguredMax
        /\ store_recommendations.v =
              SubSeq(ReturnedStores(calls[3].llm2.v), 1,
                     Min(ConfiguredMax, Len(ReturnedStores(calls[3].llm2.v))))

\* the failures of search_recipes the claim lists, read off the recorded call
SearchStageFailed(c) ==
    \/ c.llm.t = "raise"
    \/ json_loads(c.llm.v).t = "raise"
    \/ json_loads(c.llm.v).v.t # "obj"
    \/ "query" \notin DOMAIN json_loads(c.llm.v).v.v
    \/ c.search.t = "raise"
    \/ ~Truthy(c.search.v)

IsSearchFallbackBatch(batch, c) ==
    /\ batch.t = "obj"
    /\ DOMAIN batch.v = {"results"}
    /\ batch.v.results.t = "arr"
    /\ Len(batch.v.results.v) = 1
    /\ batch.v.results.v[1].v.title = PyStr(<<"Error", " ", "in", " ", "search">>)
    /\ c.llm.t = "raise" =>
          Contains(batch.v.results.v[1].v.content.v, ExcStr(c.llm.v))
    /\ c.search.t = "raise" =>
          Contains(batch.v.results.v[1].v.content.v, ExcStr(c.search.v))
    /\ (c.llm.t = "ok" /\ c.search.t = "notcalled" /\ json_loads(c.llm.v).t = "ok") =>
          Contains(batch.v.results.v[1].v.content.v, <<"Invalid", " ", "query">>)
    /\ (c.llm.t = "ok" /\ json_loads(c.llm.v).t = "raise") =>
          Contains(batch.v.results.v[1].v.content.v, ExcStr(json_loads(c.llm.v).v))
    /\ c.search.t = "ok" =>
          Contains(batch.v.results.v[1].v.content.v, <<"No", " ", "search", " ", "results">>)

\* C4: search_recipes never ends the run; on each listed failure it appends
\* the single-entry 'Error in search' batch recording the failure message
\* and the source 'Search failed', and parse_recipe runs next.
C4_SearchNeverAborts ==
    Len(calls) >= 1 =>
        /\ Len(calls) = 1 => pc = "parse_recipe"
        /\ SearchStageFailed(calls[1]) =>
              /\ IsSearchFallbackBatch(web_research_results[1], calls[1])
              /\ sources_gathered[1] = SearchFailedSource

\* the search call itself failed and the run went on to parse_recipe
C4_Witness ==
    /\ Len(calls) = 1
    /\ calls[1].search.t = "raise"
    /\ pc = "parse_recipe"
    /\ sources_gathered = <<SearchFailedSource>>

\* a body that is not JSON, or a JSON value without the three recipe keys
MalformedRecipe(body) ==
    \/ json_loads(body).t = "raise"
    \/ json_loads(body).v.t # "obj"
    \/ RequiredRecipeKeys \ DOMAIN json_loads(body).v.v # {}

\* C5: on a malformed model response parse_recipe never raises and sets the
\* 'Error in parsing' name, the one placeholder ingredient and one
\* placeholder instruction.
C5_ParseFallbackOnMalformed ==
    (/\ Len(calls) = 2
     /\ calls[2].llm.t = "ok"
     /\ MalformedRecipe(calls[2].llm.v)) =>
        /\ pc = "find_stores"
        /\ recipe_name.t = "str"
        /\ Contains(recipe_name.v, <<"Error", " ", "in", " ", "parsing">>)
        /\ ingredients = PyList(<<Ingredient(<<"1">>, <<"serving">>,
                                   <<"ingredients", " ", "not", " ", "found">>)>>)
        /\ instructions.t = "arr"
        /\ Len(instructions.v) = 1

IsStoreFallback(stores) ==
    /\ stores.t = "arr"
    /\ Len(stores.v) = 1
    /\ stores.v[1].t = "obj"
    /\ stores.v[1].v.name = PyStr(<<"Local", " ", "Grocery", " ", "Store">>)
    /\ Contains(stores.v[1].v.address.v, location.v)

\* C6: once the extraction response is in, any parse or validation failure
\* leaves exactly the one 'Local Grocery Store' entry naming the location.
C6_InvalidExtractionFallsBack ==
    (/\ Len(calls) = 3
     /\ calls[3].llm2.t = "ok"
     /\ InvalidExtraction(calls[3].llm2.v)) =>
        IsStoreFallback(store_recommendations)

\* a failure of the first half of find_stores, read off the recorded call
StoreHeadFailed(c) ==
    \/ c.llm.t = "raise"
    \/ c.llm.t = "ok" /\ json_loads(c.llm.v).t = "raise"
    \/ c.llm.t = "ok" /\ json_loads(c.llm.v).t = "ok"
         /\ py_getitem(json_loads(c.llm.v).v, "query").t = "raise"
    \/ c.search.t = "raise"

\* C7: a failure of the query call, its parse, its 'query' key or the search
\* call in find_stores ends the run: no fallback, no report, nothing printed,
\* no file written.
C7_StoreHeadFailureAborts ==
    (Len(calls) = 3 /\ StoreHeadFailed(calls[3])) =>
        /\ pc = "aborted"
        /\ error # NoError
        /\ store_recommendations = PyList(<<>>)
        /\ final_report = None
        /\ ~printed
        /\ written = None

\* the store search call failed and the run is over
C7_Witness ==
    /\ Len(calls) = 3
    /\ calls[3].search.t = "raise"
    /\ pc = "aborted"
    /\ error = calls[3].search.v

\* C8: each resolved field is the per-run value when one is given, else the
\* environment value when one is given, else the built-in default.
C8_PerRunOverEnvOverDefault ==
    configuration # Unresolved =>
        \A f \in Fields :
            configuration[f] =
                IF f \in DOMAIN config.v.configurable
                THEN config.v.configurable[f]
                ELSE IF Upper[f] \in DOMAIN env THEN env[Upper[f]]
                ELSE Defaults[f]

\* '- ' followed by the non-blank components, one blank between them
ExpectedLine(item) ==
    LET parts == <<item.v.quantity.v, item.v.unit.v, item.v.name.v>>
        kept == SelectSeq(parts, LAMBDA c : c # <<>>)
    IN <<"-">> \o (IF kept = <<>> THEN <<>> ELSE <<" ">> \o Join(<<" ">>, kept))

WellFormedIngredients(ingr) ==
    /\ ingr.t = "arr"
    /\ \A i \in 1..Len(ingr.v) :
          /\ ingr.v[i].t = "obj"
          /\ DOMAIN ingr.v[i].v = {"quantity", "unit", "name"}
          /\ \A k \in {"quantity", "unit", "name"} : ingr.v[i].v[k].t = "str"

\* C9: the shopping list of the report has one line per ingredient, a blank
\* component left out, so no line holds two consecutive blanks.
C9_BlankComponentOmitted ==
    (GraphEnded /\ WellFormedIngredients(ingredients)) =>
        /\ format_ingredients_list(ingredients).v =
              Join(<<"\n">>, [i \in 1..Len(ingredients.v) |->
                                 ExpectedLine(ingredients.v[i])])
        /\ Contains(final_report.v,
              ShoppingHeader \o <<"\n">>
              \o Join(<<"\n">>, [i \in 1..Len(ingredients.v) |->
                                    ExpectedLine(ingredients.v[i])])
              \o <<"\n", "\n">> \o CookingHeader)

\* C10: a run ends early only inside the first half of find_stores.
C10_OnlyStoreHeadAborts ==
    pc = "aborted" =>
        /\ Len(calls) = 3
        /\ calls[3].node = "find_stores"
        /\ StoreHeadFailed(calls[3])

\* every field create_report reads holds something the formatters can render
Populated ==
    /\ recipe_name # None
    /\ ingredients.t = "arr" /\ ingredients.v # <<>>
    /\ \A i \in 1..Len(ingredients.v) : ingredients.v[i].t = "obj"
    /\ instructions.t = "arr" /\ instructions.v # <<>>
    /\ store_recommendations.t = "arr" /\ store_recommendations.v # <<>>
    /\ \A i \in 1..Len(store_recommendations.v) :
          LET store == store_recommendations.v[i]
          IN /\ store.t = "obj"
             /\ "specialty_items" \in DOMAIN store.v =>
                   /\ store.v.specialty_items.t = "arr"
                   /\ \A j \in 1..Len(store.v.specialty_items.v) :
                         store.v.specialty_items.v[j].t = "str"

\* C11 as stated: whenever create_report is about to run, recipe_name is set
\* and ingredients, instructions and store_recommendations each hold at
\* least one entry of the shape the formatters expect.
C11_AlwaysPopulated == pc = "create_report" => Populated

RecipeFieldsAre(r) ==
    /\ recipe_name = r.recipe_name
    /\ ingredients = r.ingredients
    /\ instructions = r.instructions

NoEmptySection(report) ==
    /\ ~Contains(report, StoresHeader \o <<"\n", "\n">>)
    /\ ~Contains(report, ShoppingHeader \o <<"\n", "\n">>)
    /\ ~Contains(report, CookingHeader \o <<"\n", "\n">>)

\* C11 as amended: when create_report runs, the recipe fields are either the
\* placeholder recipe or exactly the values the model gave under the three
\* required keys, and the stores are either the one placeholder store or the
\* first N stores the model listed; and when the fields are populated the
\* rendering does not fail and no section of the report is empty.
C11_PopulatedOnFallbackOnly ==
    /\ pc \in {"create_report", "END", "save_to_markdown", "exit"} =>
          /\ \/ RecipeFieldsAre(parse_fallback)
             \/ /\ calls[2].llm.t = "ok"
                /\ ~MalformedRecipe(calls[2].llm.v)
                /\ RecipeFieldsAre(json_loads(calls[2].llm.v).v.v)
          /\ (RecipeFieldsAre(parse_fallback)
                /\ IsStoreFallback(store_recommendations)) => Populated
          /\ \/ IsStoreFallback(store_recommendations)
             \/ /\ calls[3].llm2.t = "ok"
                /\ json_loads(calls[3].llm2.v).t = "ok"
                /\ json_loads(calls[3].llm2.v).v.t = "obj"
                /\ "stores" \in DOMAIN json_loads(calls[3].llm2.v).v.v
                /\ json_loads(calls[3].llm2.v).v.v.stores.t = "arr"
                /\ configuration.max_store_recommendations.t = "num"
                /\ store_recommendations.v =
                      SubSeq(ReturnedStores(calls[3].llm2.v), 1,
                             Min(configuration.max_store_recommendations.v,
                                 Len(ReturnedStores(calls[3].llm2.v))))
    /\ (Len(calls) = 3 /\ Populated) => pc # "aborted"
    /\ (GraphEnded /\ Populated) =>
          /\ final_report.t = "str"
          /\ HasAllHeaders(final_report.v)
          /\ NoEmptySection(final_report.v)

\* create_report ran on the placeholder recipe and the placeholder store
C11_Witness ==
    /\ pc = "END"
    /\ RecipeFieldsAre(parse_fallback)
    /\ IsStoreFallback(store_recommendations)
    /\ Populated
    /\ final_report.t = "str"
====
